---- MODULE Spec2Model ----
(***************************************************************************)
(* Model of the tsdocs asynchronous docs-build protocol:                   *)
(*   - the poll client   (src/client/api/get-package-docs.ts)              *)
(*   - the worker process (src/server/workers/docs-builder-worker.js)      *)
(***************************************************************************)
EXTENDS Integers, Sequences, FiniteSets, TLC

(***************************************************************************)
(* JavaScript values.  A value is a record [t, v]: t is the runtime type   *)
(* and v a sequence of text fragments (the characters of a string, the     *)
(* elements of an array).  The empty string is the string with no          *)
(* fragment.                                                               *)
(***************************************************************************)
Undef == [t |-> "undefined", v |-> <<>>]

Null == [t |-> "null", v |-> <<>>]

Obj == [t |-> "object", v |-> <<>>]

EmptyStr == [t |-> "string", v |-> <<>>]

Str(s) == [t |-> "string", v |-> <<s>>]

Text(frags) == [t |-> "string", v |-> frags]

Arr(elems) == [t |-> "array", v |-> elems]

\* JavaScript truthiness: undefined, null and "" are falsy.
Truthy(x) == CASE x.t = "undefined" -> FALSE
               [] x.t = "null" -> FALSE
               [] x.t = "string" -> x.v # <<>>
               [] OTHER -> TRUE

\* Array.prototype.join(sep) on string elements.
RECURSIVE Join(_, _)
Join(elems, sep) ==
    IF elems = <<>> THEN <<>>
    ELSE IF Len(elems) = 1 THEN <<Head(elems)>>
    ELSE <<Head(elems), sep>> \o Join(Tail(elems), sep)

\* String conversion as done by template literals and by "+" on a string.
JsString(x) == CASE x.t = "undefined" -> <<"undefined">>
                 [] x.t = "null" -> <<"null">>
                 [] x.t = "string" -> x.v
                 [] x.t = "array" -> Join(x.v, ",")
                 [] OTHER -> <<"[object Object]">>

\* a || b on values.
OrElse(a, b) == IF Truthy(a) THEN a ELSE b

(***************************************************************************)
(* getErrorMessage: the error taxonomy's code -> message mapping.          *)
(* The result is [kind, value]: kind "return" with the returned string's   *)
(* fragments, or kind "throw" with the name of the exception.              *)
(***************************************************************************)
Returned(frags) == [kind |-> "return", value |-> frags]

Thrown(name) == [kind |-> "throw", value |-> <<name>>]

NotFoundText == <<"This package could not be found on the npm registry. Did you get the name right?">>

VersionLeadIn == <<"The given version for this package was not found on the npm registry.\n Found versions: \n">>

ResolveText == <<"Failed to resolve types for this package. This package likely does not ship with types, and it does not have a corresponding package @types package from which reference documentation for its APIs can be built.">>

BuildLeadIn == <<"Failed to generate documentation for this package. <br /> <details><summary>See stack trace</summary><pre><code><b>">>

BuildMid == <<"</b>">>

BuildTail == <<"</code></pre></details>">>

\* error.extra.join(", "): only an array has join; a property read on
\* undefined or null, or a call of a missing method, throws TypeError.
ExtraJoin(extra) ==
    IF extra.t = "array" THEN Returned(Join(extra.v, ", "))
    ELSE Thrown("TypeError")

\* "\n" + error.errorStack || ""  parses as  ("\n" + error.errorStack) || ""
StackFragment(errorStack) ==
    OrElse(Text(<<"\n">> \o JsString(errorStack)), EmptyStr).v

\* faulty variant: the switch has no default case and falls out of the
\* function, which then returns undefined
getErrorMessageNoDefault(error) ==
    CASE error.name = Str("PackageNotFoundError") -> Returned(NotFoundText)
      [] error.name = Str("PackageVersionMismatchError") ->
            IF ExtraJoin(error.extra).kind = "throw"
            THEN ExtraJoin(error.extra)
            ELSE Returned(VersionLeadIn \o ExtraJoin(error.extra).value)
      [] error.name = Str("TypeDefinitionResolveError") -> Returned(ResolveText)
      [] error.name = Str("TypeDocBuildError") ->
            Returned(BuildLeadIn \o JsString(error.extra) \o BuildMid
                     \o StackFragment(error.errorStack) \o BuildTail)
      [] OTHER -> Returned(<<"undefined">>)

\* lines 130-164
getErrorMessage(error) ==
    CASE error.name = Str("PackageNotFoundError") -> Returned(NotFoundText)
      [] error.name = Str("PackageVersionMismatchError") ->
            IF ExtraJoin(error.extra).kind = "throw"
            THEN ExtraJoin(error.extra)
            ELSE Returned(VersionLeadIn \o ExtraJoin(error.extra).value)
      [] error.name = Str("TypeDefinitionResolveError") -> Returned(ResolveText)
      [] error.name = Str("TypeDocBuildError") ->
            Returned(BuildLeadIn \o JsString(error.extra) \o BuildMid
                     \o StackFragment(error.errorStack) \o BuildTail)
      [] OTHER -> Returned(<<>>)


(***************************************************************************)
(* State.                                                                  *)
(***************************************************************************)
VARIABLES
    \* poll client (one invocation of getPackageDocs / getPackageDocsSync)
    entry,          \* the function that was called
    cpc,            \* position: idle, trigger, build, query, sleep, done, rejected
    timeElapsed,    \* pollQueue's timeElapsed parameter of the current iteration
    start,          \* Date.now() taken before the current status query
    cnow,           \* the client's clock (ms since the call)
    pollInterval,   \* the server-suggested poll spacing
    queries,        \* status queries issued so far
    result,         \* the value the promise settled with
    returns,        \* how many times the invocation has returned
    pendingCalls,   \* asynchronous calls issued and not yet settled
    history,        \* statuses of the poll responses received, in order
    sumD,           \* sum of the durations of the status queries so far
    sumSleep,       \* sum of the durations of the sleeps so far
    jobId,          \* pollQueue's jobId parameter
    requests,       \* the HTTP requests issued so far, in order
    trigResp,       \* the body the trigger request resolved with
    lastResp,       \* the body the last status query / build request resolved with
    pollErr,        \* the error the status query was rejected with
    \* getErrorMessage applied on its own
    errIn, errOut,
    \* worker process
    wnow,           \* the worker's clock (ms since process start)
    workerActiveTime,
    alive,          \* the process has not exited
    hpc,            \* job handler: idle, building, returned, threw
    cur,            \* the job the handler was invoked with
    handlerOut,     \* what the handler of each job settled with (to the queue)
    jobStatus,      \* queue's status of each job
    jobData,        \* job record's data.originalError of each job
    pendingUpdate,  \* job.updateData calls issued and not yet applied
    lastAttemptStart, \* time of the most recent handler invocation
    buildOut        \* what generateDocsForPackage settled with, for each job

cvars == <<entry, cpc, timeElapsed, start, cnow, pollInterval, queries, result,
           returns, pendingCalls, history, sumD, sumSleep, jobId, requests,
           trigResp, lastResp, pollErr>>

evars == <<errIn, errOut>>

wvars == <<wnow, workerActiveTime, alive, hpc, cur, handlerOut, jobStatus,
           jobData, pendingUpdate, lastAttemptStart, buildOut>>

vars == <<cvars, evars, wvars>>

(***************************************************************************)
(* Bounds and input sets.                                                  *)
(***************************************************************************)
MaxPolls == 4

StatusValues == {Str("success"), Str("queued"), Str("failed"), Str("active"), Undef}

ErrorCodes == {Str("PackageNotFoundError"), Str("PackageVersionMismatchError"),
               Str("TypeDefinitionResolveError"), Str("TypeDocBuildError"),
               Str("SomeOtherError"), EmptyStr, Undef}

Extras == {Undef, Null, EmptyStr, Str("boom"), Arr(<<"1.0.0", "2.0.0">>), Obj}

Stacks == {Undef, Null, EmptyStr, Str("at build (doc-generator.ts:1)")}

QueryDurations == {0, 100000, 200001}

PollIntervals == {0, 1000}

SleepLateness == {0, 1}

HttpErrorStatuses == {404, 500}

\* response bodies: the fields the client reads
ErrorFields == [errorCode : ErrorCodes, errorMessage : Extras, errorStack : Stacks]

NoErrorFields == [errorCode |-> Undef, errorMessage |-> Undef, errorStack |-> Undef]

Body(status, f) == [status |-> status, errorCode |-> f.errorCode,
                    errorMessage |-> f.errorMessage, errorStack |-> f.errorStack]

PollBodies == {Body(s, NoErrorFields) : s \in StatusValues}
              \cup {Body(Str("failed"), f) : f \in ErrorFields}

BuildBodies == PollBodies

JobIds == {"J1", "J2"}

TriggerBodies == [status : StatusValues, jobId : JobIds, pollInterval : PollIntervals]

\* what axios rejects with: no response at all, a response without a
\* (truthy) body, or a response whose body has name / extra / errorStack
ErrorData == [name : {Str("PackageNotFoundError"), Str("PackageVersionMismatchError"), Undef},
              extra : {Undef, Str("boom"), Arr(<<"1.0.0", "2.0.0">>)},
              errorStack : {Undef}]

NoData == [name |-> Undef, extra |-> Undef, errorStack |-> Undef]

TransportErrors ==
    {[response |-> FALSE, status |-> 0, hasData |-> FALSE, data |-> NoData]}
    \cup {[response |-> TRUE, status |-> st, hasData |-> FALSE, data |-> NoData] :
             st \in HttpErrorStatuses}
    \cup {[response |-> TRUE, status |-> st, hasData |-> TRUE, data |-> d] :
             st \in HttpErrorStatuses, d \in ErrorData}


(***************************************************************************)
(* Poll client: src/client/api/get-package-docs.ts                         *)
(***************************************************************************)
POLL_TIMEOUT == 200000

TimeoutText == <<"Building docs took longer than expected. Check back in sometime to see if the load on the server has reduced? If this persists, file an issue.">>

RemovedText == <<"Building docs for this package failed, because the job to build the docs was removed from queue.">>

UnknownStatusText == <<"Failed because the polling API returned an unknown status: ">>

NoResult == [status |-> "none", errorCode |-> Undef, errorMessage |-> <<>>]

Success == [status |-> "success", errorCode |-> Undef, errorMessage |-> <<>>]

Failure(code, msg) == [status |-> "failure", errorCode |-> code, errorMessage |-> msg]

\* the promise is rejected with an exception instead of resolving
Rejected(exc) == [status |-> "rejected", errorCode |-> Undef, errorMessage |-> exc]

\* JSON.stringify of one value; undefined properties are left out by the caller
JsonValue(x) == CASE x.t = "null" -> <<"null">>
                  [] x.t = "string" -> <<"\"">> \o x.v \o <<"\"">>
                  [] x.t = "array" -> <<"[">> \o Join(x.v, ",") \o <<"]">>
                  [] OTHER -> <<"{}">>

RECURSIVE JsonPairs(_, _)
JsonPairs(pairs, first) ==
    IF pairs = <<>> THEN <<>>
    ELSE IF Head(pairs)[2].t = "undefined" THEN JsonPairs(Tail(pairs), first)
    ELSE (IF first THEN <<>> ELSE <<",">>) \o <<Head(pairs)[1]>>
         \o JsonValue(Head(pairs)[2]) \o JsonPairs(Tail(pairs), FALSE)

JsonStringify(data) ==
    <<"{">> \o JsonPairs(<< <<"name:", data.name>>, <<"extra:", data.extra>>,
                            <<"errorStack:", data.errorStack>> >>, TRUE) \o <<"}">>

\* faulty variant: the budget written with one digit too many
PollTimedOutLate(te) == te > 10 * POLL_TIMEOUT

\* line 64: the give-up test at the start of an iteration
PollTimedOut(te) == te > POLL_TIMEOUT

TimeoutOutcome == Failure(Str("DocsBuildTimeout"), TimeoutText)

\* faulty variant: the time already elapsed is not carried over
NextElapsedNoSum(te, nowAfter, st) == nowAfter - st

\* line 107: the timeElapsed of the next iteration; nowAfter is Date.now()
\* evaluated after the sleep has resolved
NextElapsed(te, nowAfter, st) == te + nowAfter - st

\* faulty variant: the 404 case is not told apart
PollCatchMessageNo404(err) ==
    IF err.response
    THEN <<ToString(err.status), " ">>
         \o (IF err.hasData THEN JsonStringify(err.data) ELSE <<>>)
    ELSE <<>>

\* lines 79-97: the catch of the status query
PollCatchMessage(err) ==
    IF err.response
    THEN IF err.status = 404
         THEN RemovedText
         ELSE <<ToString(err.status), " ">>
              \o (IF err.hasData THEN JsonStringify(err.data) ELSE <<>>)
    ELSE <<>>

PollCatchOutcome(err) == Failure(Str("UNEXPECTED_DOCS_POLL_FAILURE"), PollCatchMessage(err))

\* a failed response mapped through getErrorMessage (lines 110-120, 261-269)
FailedOutcome(data) ==
    LET m == getErrorMessage([name |-> data.errorCode, extra |-> data.errorMessage,
                              errorStack |-> data.errorStack])
    IN IF m.kind = "throw" THEN Rejected(m.value)
       ELSE Failure(data.errorCode, m.value)

\* faulty variant: the success status is compared against a misspelt literal
PollStatusOutcomeTypo(data) ==
    CASE data.status = Str("sucess") -> Success
      [] data.status = Str("queued") -> [status |-> "sleep", errorCode |-> Undef, errorMessage |-> <<>>]
      [] data.status = Str("failed") -> FailedOutcome(data)
      [] OTHER -> Failure(Str("UNEXPECTED_DOCS_POLL_STATUS"),
                          UnknownStatusText \o JsString(data.status))

\* faulty variant: an unknown status is taken for "still queued"
PollStatusOutcomeRetry(data) ==
    CASE data.status = Str("success") -> Success
      [] data.status = Str("failed") -> FailedOutcome(data)
      [] OTHER -> [status |-> "sleep", errorCode |-> Undef, errorMessage |-> <<>>]

\* lines 99-127: what a received status makes of the iteration;
\* "sleep" stands for the queued branch, which goes on polling
PollStatusOutcome(data) ==
    CASE data.status = Str("success") -> Success
      [] data.status = Str("queued") -> [status |-> "sleep", errorCode |-> Undef, errorMessage |-> <<>>]
      [] data.status = Str("failed") -> FailedOutcome(data)
      [] OTHER -> Failure(Str("UNEXPECTED_DOCS_POLL_STATUS"),
                          UnknownStatusText \o JsString(data.status))

\* lines 180-195, 235-250: the catch of the trigger / build request
TriggerCatchOutcome(err) ==
    IF err.response /\ err.hasData
    THEN LET m == getErrorMessage(err.data)
         IN IF m.kind = "throw" THEN Rejected(m.value)
            ELSE Failure(err.data.name, m.value)
    ELSE Failure(Str("UNEXPECTED_DOCS_TRIGGER_FAILURE"), <<>>)

\* lines 252-269: getPackageDocsSync on a response
SyncOutcome(data) ==
    IF data.status = Str("success") THEN Success ELSE FailedOutcome(data)

\* the invocation settles: it returns outcome, or rejects
Settle(outcome) ==
    /\ result' = outcome
    /\ cpc' = IF outcome.status = "rejected" THEN "rejected" ELSE "done"
    /\ returns' = IF outcome.status = "rejected" THEN returns ELSE returns + 1
    /\ pendingCalls' = {}

\* faulty variant: the status query is sent as a request that removes the job
PollRequestDelete(id) == [method |-> "DELETE", path |-> "/api/docs/poll/", id |-> id]

\* the requests the client issues (lines 78, 175-179, 230-234)
PollRequest(id) == [method |-> "GET", path |-> "/api/docs/poll/", id |-> id]

TriggerRequest == [method |-> "POST", path |-> "/api/docs/trigger/", id |-> ""]

BuildRequest == [method |-> "POST", path |-> "/api/docs/build/", id |-> ""]

NotSeen(x) == [seen |-> FALSE, data |-> x]

Seen(x) == [seen |-> TRUE, data |-> x]

\* lines 54-78: entry of pollQueue for job id with timeElapsed te at time
\* nowv: give up, or take start and issue the status query
EnterPoll(te, nowv, id) ==
    /\ timeElapsed' = te
    /\ jobId' = id
    /\ IF PollTimedOut(te)
       THEN Settle(TimeoutOutcome) /\ UNCHANGED <<start, queries, requests>>
       ELSE /\ start' = nowv
            /\ queries' = queries + 1
            /\ requests' = Append(requests, PollRequest(id))
            /\ cpc' = "query"
            /\ pendingCalls' = {"query"}
            /\ UNCHANGED <<result, returns>>


\* faulty variant: the poll fallback's code is used for the trigger
TriggerStatusOutcomePollCode(data) ==
    Failure(Str("UNEXPECTED_DOCS_POLL_STATUS"), UnknownStatusText \o JsString(data.status))

\* lines 213-218: a trigger status that is neither success nor queued
TriggerStatusOutcome(data) ==
    Failure(Str("UNEXPECTED_DOCS_TRIGGER_STATUS"), UnknownStatusText \o JsString(data.status))

\* getPackageDocs is called: the trigger request is issued (lines 166-179)
CallGetPackageDocs ==
    /\ cpc = "idle"
    /\ entry' = "getPackageDocs"
    /\ cpc' = "trigger"
    /\ pendingCalls' = {"trigger"}
    /\ requests' = Append(requests, TriggerRequest)
    /\ UNCHANGED <<jobId, trigResp, lastResp, pollErr>>
    /\ UNCHANGED <<timeElapsed, start, cnow, pollInterval, queries, result,
                   returns, history, sumD, sumSleep>>
    /\ UNCHANGED <<evars, wvars>>

\* the trigger request resolves after d ms with body data (lines 197-218)
TriggerResolvesWith(d, data) ==
    /\ cpc = "trigger"
    /\ cnow' = cnow + d
    /\ trigResp' = Seen(data)
    /\ IF data.status = Str("success")
       THEN /\ Settle(Success)
            /\ UNCHANGED <<timeElapsed, start, pollInterval, queries, jobId, requests>>
       ELSE IF data.status = Str("queued")
       THEN /\ pollInterval' = data.pollInterval
            /\ EnterPoll(0, cnow', data.jobId)
       ELSE /\ Settle(TriggerStatusOutcome(data))
            /\ UNCHANGED <<timeElapsed, start, pollInterval, queries, jobId, requests>>
    /\ UNCHANGED <<history, sumD, sumSleep, lastResp, pollErr>>
    /\ UNCHANGED <<entry, evars>>

TriggerResolves ==
    \E d \in QueryDurations, data \in TriggerBodies :
        TriggerResolvesWith(d, data) /\ UNCHANGED wvars

\* the trigger request fails (lines 180-195)
TriggerRejects ==
    \E d \in QueryDurations, err \in TransportErrors :
        /\ cpc = "trigger"
        /\ cnow' = cnow + d
        /\ Settle(TriggerCatchOutcome(err))
        /\ UNCHANGED <<timeElapsed, start, pollInterval, queries, history, sumD, sumSleep>>
        /\ UNCHANGED <<jobId, requests, trigResp, lastResp, pollErr>>
        /\ UNCHANGED <<entry, evars, wvars>>

\* the status query resolves after d ms with body data (lines 78, 99-127)
QueryResolvesWith(d, data) ==
    /\ cpc = "query"
    /\ cnow' = cnow + d
    /\ sumD' = sumD + d
    /\ history' = Append(history, data.status)
    /\ lastResp' = Seen(data)
    /\ IF PollStatusOutcome(data).status = "sleep"
       THEN /\ cpc' = "sleep"
            /\ pendingCalls' = {"sleep"}
            /\ UNCHANGED <<result, returns>>
       ELSE Settle(PollStatusOutcome(data))
    /\ UNCHANGED <<timeElapsed, start, pollInterval, queries, sumSleep>>
    /\ UNCHANGED <<jobId, requests, trigResp, pollErr>>
    /\ UNCHANGED <<entry, evars>>

QueryResolves ==
    \E d \in QueryDurations, data \in PollBodies :
        QueryResolvesWith(d, data) /\ UNCHANGED wvars

\* the status query fails after d ms (lines 79-97)
QueryRejects ==
    \E d \in QueryDurations, err \in TransportErrors :
        /\ cpc = "query"
        /\ cnow' = cnow + d
        /\ sumD' = sumD + d
        /\ Settle(PollCatchOutcome(err))
        /\ pollErr' = Seen(err)
        /\ UNCHANGED <<timeElapsed, start, pollInterval, queries, history, sumSleep>>
        /\ UNCHANGED <<jobId, requests, trigResp, lastResp>>
        /\ UNCHANGED <<entry, evars, wvars>>

\* the sleep resolves, pollInterval ms or a little later, and pollQueue
\* calls itself (lines 106-107, then 64-78 of the next iteration)
SleepResolves ==
    \E late \in SleepLateness :
        /\ cpc = "sleep"
        /\ queries < MaxPolls
        /\ cnow' = cnow + pollInterval + late
        /\ sumSleep' = sumSleep + pollInterval + late
        /\ EnterPoll(NextElapsed(timeElapsed, cnow', start), cnow', jobId)
        /\ UNCHANGED <<pollInterval, history, sumD, trigResp, lastResp, pollErr>>
        /\ UNCHANGED <<entry, evars, wvars>>

\* the same step once MaxPolls queries are on record: the record keeps the
\* latest MaxPolls queries and drops the oldest, the program's own
\* variables change as in SleepResolves; the timer is exact here
SleepResolvesPastHorizon ==
    /\ cpc = "sleep"
    /\ queries = MaxPolls
    /\ cnow' = cnow + pollInterval
    /\ sumSleep' = sumSleep + pollInterval
    /\ timeElapsed' = NextElapsed(timeElapsed, cnow', start)
    /\ IF PollTimedOut(timeElapsed')
       THEN Settle(TimeoutOutcome) /\ UNCHANGED <<start, requests, history>>
       ELSE /\ start' = cnow'
            /\ requests' = <<requests[1]>> \o Tail(Tail(requests)) \o <<PollRequest(jobId)>>
            /\ history' = Tail(history)
            /\ cpc' = "query"
            /\ pendingCalls' = {"query"}
            /\ UNCHANGED <<result, returns>>
    /\ UNCHANGED <<queries, jobId, pollInterval, sumD, trigResp, lastResp, pollErr>>
    /\ UNCHANGED <<entry, evars, wvars>>

\* the status query resolves with a body that carries a status only
QueryResolvesPlain ==
    \E d \in QueryDurations, st \in StatusValues :
        QueryResolvesWith(d, Body(st, NoErrorFields)) /\ UNCHANGED wvars

\* getPackageDocsSync is called: the build request is issued (lines 221-234)
CallGetPackageDocsSync ==
    /\ cpc = "idle"
    /\ entry' = "getPackageDocsSync"
    /\ cpc' = "build"
    /\ pendingCalls' = {"build"}
    /\ requests' = Append(requests, BuildRequest)
    /\ UNCHANGED <<jobId, trigResp, lastResp, pollErr>>
    /\ UNCHANGED <<timeElapsed, start, cnow, pollInterval, queries, result,
                   returns, history, sumD, sumSleep>>
    /\ UNCHANGED <<evars, wvars>>

\* the build request resolves (lines 252-269)
BuildResolves ==
    \E d \in QueryDurations, data \in BuildBodies :
        /\ cpc = "build"
        /\ cnow' = cnow + d
        /\ Settle(SyncOutcome(data))
        /\ lastResp' = Seen(data)
        /\ UNCHANGED <<timeElapsed, start, pollInterval, queries, history, sumD, sumSleep>>
        /\ UNCHANGED <<jobId, requests, trigResp, pollErr>>
        /\ UNCHANGED <<entry, evars, wvars>>

\* the build request fails (lines 235-250)
BuildRejects ==
    \E d \in QueryDurations, err \in TransportErrors :
        /\ cpc = "build"
        /\ cnow' = cnow + d
        /\ Settle(TriggerCatchOutcome(err))
        /\ UNCHANGED <<timeElapsed, start, pollInterval, queries, history, sumD, sumSleep>>
        /\ UNCHANGED <<jobId, requests, trigResp, lastResp, pollErr>>
        /\ UNCHANGED <<entry, evars, wvars>>

(***************************************************************************)
(* getErrorMessage applied to an input on its own.                         *)
(***************************************************************************)
ErrorInputs == [name : ErrorCodes, extra : Extras, errorStack : Stacks]

NotCalled == [kind |-> "none", value |-> <<>>]

Describe ==
    /\ errOut = NotCalled
    /\ errOut' = getErrorMessage(errIn)
    /\ UNCHANGED errIn
    /\ UNCHANGED <<cvars, wvars>>

(***************************************************************************)
(* Worker process: src/server/workers/docs-builder-worker.js               *)
(***************************************************************************)
MaxJobs == 2

MaxNow == 700000

TimeSteps == {100000, 100001}

Jobs == 1 .. MaxJobs

\* line 11: 1000 * 60 * 5
IdleThreshold == 1000 * 60 * 5

\* values a build can throw: an error object, with or without an
\* originalError, or a value that is no object at all
ErrObj(msg, hasOriginal, oStack, oMessage) ==
    [t |-> "error", message |-> msg, hasOriginal |-> hasOriginal,
     oStack |-> oStack, oMessage |-> oMessage]

NoErr == [t |-> "none", message |-> Undef, hasOriginal |-> FALSE,
          oStack |-> Undef, oMessage |-> Undef]

NullErr == [t |-> "null", message |-> Undef, hasOriginal |-> FALSE,
            oStack |-> Undef, oMessage |-> Undef]

TypeErr == ErrObj(Str("TypeError"), FALSE, Undef, Undef)

BuildErrors ==
    {ErrObj(Str("TypeDocBuildError"), TRUE, Str("at build (doc-generator.ts:1)"), Str("boom")),
     ErrObj(Str("PackageNotFoundError"), FALSE, Undef, Undef),
     NullErr}

\* lines 26-30: the context attached to the job record
NoContext == [set |-> FALSE, code |-> Undef, stacktrace |-> Undef, message |-> Undef]

ErrorContext(err) ==
    [set |-> TRUE,
     code |-> err.message,
     stacktrace |-> IF err.hasOriginal THEN err.oStack ELSE Undef,
     message |-> IF err.hasOriginal THEN err.oMessage ELSE Undef]

NoOutcome == [kind |-> "none", err |-> NoErr]

ResultOutcome == [kind |-> "result", err |-> NoErr]

ErrorOutcome(err) == [kind |-> "error", err |-> err]

\* faulty variant: the operands of the subtraction are swapped
WatchdogIdleSwapped(nowv, active) == active - nowv > IdleThreshold

\* line 11: the watchdog's test
WatchdogIdle(nowv, active) == nowv - active > IdleThreshold

\* faulty variant: the handler does not refresh workerActiveTime
RefreshActiveStale(nowv, active) == active

\* line 19: workerActiveTime = Date.now()
RefreshActive(nowv, active) == nowv

\* lines 23-33: reading err.message of null or undefined throws TypeError
\* before job.updateData is reached; otherwise the handler rethrows err
CatchThrows(err) == IF err.t = "error" THEN err ELSE TypeErr

CatchUpdates(err) == IF err.t = "error" THEN {ErrorContext(err)} ELSE {}

\* time passes
ClockAdvance ==
    \E dt \in TimeSteps :
        /\ alive
        /\ wnow + dt <= MaxNow
        /\ wnow' = wnow + dt
        /\ UNCHANGED <<workerActiveTime, alive, hpc, cur, handlerOut, jobStatus,
                       jobData, pendingUpdate, lastAttemptStart, buildOut>>
        /\ UNCHANGED <<cvars, evars>>

\* lines 10-15: a tick of the interval timer that finds the worker idle
WatchdogTick ==
    /\ alive
    /\ WatchdogIdle(wnow, workerActiveTime)
    /\ alive' = FALSE
    /\ UNCHANGED <<wnow, workerActiveTime, hpc, cur, handlerOut, jobStatus,
                   jobData, pendingUpdate, lastAttemptStart, buildOut>>
    /\ UNCHANGED <<cvars, evars>>

\* lines 17-22: the queue delivers job j; the handler refreshes
\* workerActiveTime and calls generateDocsForPackage
JobStart ==
    \E j \in Jobs :
        /\ alive
        /\ hpc = "idle"
        /\ jobStatus[j] = "queued"
        /\ jobStatus' = [jobStatus EXCEPT ![j] = "active"]
        /\ workerActiveTime' = RefreshActive(wnow, workerActiveTime)
        /\ lastAttemptStart' = wnow
        /\ hpc' = "building"
        /\ cur' = j
        /\ buildOut' = [buildOut EXCEPT ![j] = NoOutcome]
        /\ handlerOut' = [handlerOut EXCEPT ![j] = NoOutcome]
        /\ UNCHANGED <<wnow, alive, jobData, pendingUpdate>>
        /\ UNCHANGED <<cvars, evars>>

\* line 20: the build resolves and the handler returns its result
GenerateDocsResolves ==
    /\ alive
    /\ hpc = "building"
    /\ buildOut' = [buildOut EXCEPT ![cur] = ResultOutcome]
    /\ handlerOut' = [handlerOut EXCEPT ![cur] = ResultOutcome]
    /\ hpc' = "returned"
    /\ UNCHANGED <<wnow, workerActiveTime, alive, cur, jobStatus, jobData,
                   pendingUpdate, lastAttemptStart>>
    /\ UNCHANGED <<cvars, evars>>

\* lines 23-33: the build rejects; the handler calls job.updateData, which
\* is asynchronous and is not awaited, and rethrows
GenerateDocsRejects ==
    \E err \in BuildErrors :
        /\ alive
        /\ hpc = "building"
        /\ buildOut' = [buildOut EXCEPT ![cur] = ErrorOutcome(err)]
        /\ pendingUpdate' = pendingUpdate \cup
                            {[job |-> cur, ctx |-> c] : c \in CatchUpdates(err)}
        /\ handlerOut' = [handlerOut EXCEPT ![cur] = ErrorOutcome(CatchThrows(err))]
        /\ hpc' = "threw"
        /\ UNCHANGED <<wnow, workerActiveTime, alive, cur, jobStatus, jobData,
                       lastAttemptStart>>
        /\ UNCHANGED <<cvars, evars>>

\* the write of a job.updateData call reaches the job record
UpdateDataLands ==
    \E u \in pendingUpdate :
        /\ jobData' = [jobData EXCEPT ![u.job] = u.ctx]
        /\ pendingUpdate' = pendingUpdate \ {u}
        /\ UNCHANGED <<wnow, workerActiveTime, alive, hpc, cur, handlerOut,
                       jobStatus, lastAttemptStart, buildOut>>
        /\ UNCHANGED <<cvars, evars>>

\* the queue records the handler's return: the job is marked success
QueueCompletes ==
    /\ alive
    /\ hpc = "returned"
    /\ jobStatus' = [jobStatus EXCEPT ![cur] = "success"]
    /\ hpc' = "idle"
    /\ UNCHANGED <<wnow, workerActiveTime, alive, cur, handlerOut, jobData,
                   pendingUpdate, lastAttemptStart, buildOut>>
    /\ UNCHANGED <<cvars, evars>>

\* the queue records the handler's throw: the job is marked failed
QueueFails ==
    /\ alive
    /\ hpc = "threw"
    /\ jobStatus' = [jobStatus EXCEPT ![cur] = "failed"]
    /\ hpc' = "idle"
    /\ UNCHANGED <<wnow, workerActiveTime, alive, cur, handlerOut, jobData,
                   pendingUpdate, lastAttemptStart, buildOut>>
    /\ UNCHANGED <<cvars, evars>>

(***************************************************************************)
(* Specifications.                                                         *)
(***************************************************************************)
ClientInit ==
    /\ entry = "none"
    /\ cpc = "idle"
    /\ timeElapsed = 0
    /\ start = 0
    /\ cnow = 0
    /\ pollInterval = 0
    /\ queries = 0
    /\ result = NoResult
    /\ returns = 0
    /\ pendingCalls = {}
    /\ history = <<>>
    /\ sumD = 0
    /\ sumSleep = 0
    /\ jobId = ""
    /\ requests = <<>>
    /\ trigResp = NotSeen([status |-> Undef, jobId |-> "", pollInterval |-> 0])
    /\ lastResp = NotSeen(Body(Undef, NoErrorFields))
    /\ pollErr = NotSeen([response |-> FALSE, status |-> 0, hasData |-> FALSE, data |-> NoData])

WorkerInit ==
    /\ wnow = 0
    /\ workerActiveTime = 0
    /\ alive = TRUE
    /\ hpc = "idle"
    /\ cur = 0
    /\ handlerOut = [j \in Jobs |-> NoOutcome]
    /\ jobStatus = [j \in Jobs |-> "queued"]
    /\ jobData = [j \in Jobs |-> NoContext]
    /\ pendingUpdate = {}
    /\ lastAttemptStart = 0
    /\ buildOut = [j \in Jobs |-> NoOutcome]

Init ==
    /\ ClientInit
    /\ WorkerInit
    /\ errIn = [name |-> Undef, extra |-> Undef, errorStack |-> Undef]
    /\ errOut = NotCalled

ErrInit ==
    /\ ClientInit
    /\ WorkerInit
    /\ errIn \in ErrorInputs
    /\ errOut = NotCalled

Next ==
    \/ CallGetPackageDocs
    \/ TriggerResolves
    \/ TriggerRejects
    \/ QueryResolves
    \/ QueryRejects
    \/ SleepResolves
    \/ CallGetPackageDocsSync
    \/ BuildResolves
    \/ BuildRejects

WorkerNext ==
    \/ ClockAdvance
    \/ WatchdogTick
    \/ JobStart
    \/ GenerateDocsResolves
    \/ GenerateDocsRejects
    \/ UpdateDataLands
    \/ QueueCompletes
    \/ QueueFails

\* the poll client
Spec == Init /\ [][Next]_vars

(***************************************************************************)
(* The client polling a job of the worker's queue.  The trigger and poll   *)
(* endpoints are not part of the sources; they answer as the interface     *)
(* description says: the trigger enqueues and answers queued with the job  *)
(* id, the poll reports the job's status and, for a failed job, the        *)
(* context attached to its record.                                         *)
(***************************************************************************)
JobOf(id) == IF id = "J1" THEN 1 ELSE 2

ServerPollBody(j) ==
    CASE jobStatus[j] = "success" -> Body(Str("success"), NoErrorFields)
      [] jobStatus[j] = "failed" ->
            Body(Str("failed"), [errorCode |-> jobData[j].code,
                                 errorMessage |-> jobData[j].message,
                                 errorStack |-> jobData[j].stacktrace])
      [] OTHER -> Body(Str("queued"), NoErrorFields)

SysTrigger ==
    \E d \in QueryDurations, id \in JobIds, pi \in PollIntervals :
        /\ TriggerResolvesWith(d, [status |-> Str("queued"), jobId |-> id, pollInterval |-> pi])
        /\ UNCHANGED wvars

SysPoll ==
    \E d \in QueryDurations :
        /\ QueryResolvesWith(d, ServerPollBody(JobOf(jobId)))
        /\ UNCHANGED wvars

SystemNext ==
    \/ CallGetPackageDocs
    \/ SysTrigger
    \/ SysPoll
    \/ SleepResolves
    \/ JobStart
    \/ GenerateDocsResolves
    \/ GenerateDocsRejects
    \/ UpdateDataLands
    \/ QueueCompletes
    \/ QueueFails

SystemSpec == Init /\ [][SystemNext]_vars

\* getErrorMessage on every input
ErrSpec == ErrInit /\ [][Describe]_vars

\* the worker process
WorkerSpec == Init /\ [][WorkerNext]_vars

\* getPackageDocs polling without a bound on the number of queries
LoopNext ==
    \/ CallGetPackageDocs
    \/ TriggerResolves
    \/ TriggerRejects
    \/ QueryResolvesPlain
    \/ QueryRejects
    \/ SleepResolves
    \/ SleepResolvesPastHorizon

\* every pending request and timer settles: the server answers every query
LoopFairSpec == Init /\ [][LoopNext]_vars /\ WF_vars(LoopNext)

\* the worker process; the interval timer keeps firing while the process lives
WorkerFairSpec == WorkerSpec /\ WF_vars(WatchdogTick)


(***************************************************************************)
(* Properties of the poll client.                                          *)
(***************************************************************************)
\* the returned text holds the fragment frag
Contains(frags, frag) == \E i \in 1 .. Len(frags) : frags[i] = frag

\* the invocation gave up with DocsBuildTimeout: every status query issued
\* has been answered, all with queued, and nothing is pending
GaveUp ==
    /\ cpc = "done"
    /\ result = TimeoutOutcome
    /\ pendingCalls = {}
    /\ queries = Len(history)
    /\ \A i \in 1 .. Len(history) : history[i] = Str("queued")

\* C1 as stated: an iteration entered with timeElapsed >= 200,000 (exactly
\* 200,000 included) gives up with DocsBuildTimeout and issues no query.
C1_TimeoutAtOrPastBudget == timeElapsed >= POLL_TIMEOUT => GaveUp

\* C1 amended: an iteration entered with timeElapsed strictly greater than
\* 200,000 gives up with DocsBuildTimeout and issues no further status
\* query; at exactly 200,000 one more status query is issued.
C1_TimeoutPastBudget ==
    /\ timeElapsed > POLL_TIMEOUT => GaveUp
    /\ cpc \in {"query", "sleep"} => timeElapsed <= POLL_TIMEOUT

C1_Witness == timeElapsed > POLL_TIMEOUT /\ GaveUp /\ queries >= 2

\* C2 as stated: at the start of an iteration timeElapsed is the sum of the
\* durations of the previous status queries; the sleeps are not counted.
C2_ElapsedIsQueryTime ==
    (cpc = "query" \/ result = TimeoutOutcome) => timeElapsed = sumD

\* C2 amended: at the start of an iteration timeElapsed is the sum of the
\* durations of the previous status queries and of the sleeps that followed
\* them: Date.now() is read after the sleep, so the sleep is counted.
C2_ElapsedIsQueryAndSleepTime ==
    (cpc = "query" \/ result = TimeoutOutcome) => timeElapsed = sumD + sumSleep

C2_Witness == cpc = "query" /\ queries >= 3 /\ sumD > 0 /\ sumSleep > 0

\* the responses received so far are some queued responses and then success
QueuedThenSuccess ==
    /\ history # <<>>
    /\ history[Len(history)] = Str("success")
    /\ \A i \in 1 .. Len(history) - 1 : history[i] = Str("queued")

\* C3: when the poll responses received are any number of queued responses
\* followed by one success response, pollQueue has returned success, exactly
\* once, and no status query or sleep is pending.
C3_SuccessExactlyOnce ==
    /\ returns <= 1
    /\ QueuedThenSuccess =>
          /\ cpc = "done"
          /\ result = Success
          /\ returns = 1
          /\ pendingCalls = {}

C3_Witness == QueuedThenSuccess /\ Len(history) >= 3 /\ result = Success /\ returns = 1

\* C4: no invocation of getPackageDocs, getPackageDocsSync or pollQueue ends
\* in a rejected promise.
C4_NeverRejects == cpc # "rejected"

\* C5: every failure outcome carries an errorCode that is a non-empty string.
C5_ErrorCodeSet ==
    result.status = "failure" =>
        (result.errorCode.t = "string" /\ result.errorCode.v # <<>>)

\* what pollQueue ended with, told from the last thing it received
PollOutcome ==
    IF pollErr.seen THEN PollCatchOutcome(pollErr.data)
    ELSE IF history # <<>> /\ history[Len(history)] # Str("queued")
    THEN PollStatusOutcome(lastResp.data)
    ELSE TimeoutOutcome

\* C14: getPackageDocs on a trigger response: success returns success with
\* no status query; queued polls the returned jobId with the returned
\* pollInterval from timeElapsed 0, each query at least pollInterval after
\* the previous one, and returns what the polling ends with; any other
\* status returns failure UNEXPECTED_DOCS_TRIGGER_STATUS.
C14_TriggerMapping ==
    trigResp.seen =>
        /\ trigResp.data.status = Str("success") =>
              (cpc = "done" /\ result = Success /\ queries = 0
               /\ requests = <<TriggerRequest>>)
        /\ trigResp.data.status = Str("queued") =>
              /\ queries >= 1
              /\ jobId = trigResp.data.jobId
              /\ pollInterval = trigResp.data.pollInterval
              /\ \A i \in 2 .. Len(requests) : requests[i] = PollRequest(trigResp.data.jobId)
              /\ Len(requests) = queries + 1
              /\ (queries = 1 /\ cpc \in {"query", "sleep"}) => timeElapsed = 0
              /\ sumSleep >= (queries - 1) * pollInterval
              /\ cpc \in {"done", "rejected"} => result = PollOutcome
        /\ trigResp.data.status \notin {Str("success"), Str("queued")} =>
              /\ cpc = "done"
              /\ result.status = "failure"
              /\ result.errorCode = Str("UNEXPECTED_DOCS_TRIGGER_STATUS")
              /\ queries = 0

C14_Witness ==
    /\ trigResp.seen
    /\ trigResp.data = [status |-> Str("queued"), jobId |-> "J1", pollInterval |-> 1000]
    /\ history = <<Str("queued"), Str("success")>>
    /\ sumSleep >= 1000
    /\ requests = <<TriggerRequest, PollRequest("J1"), PollRequest("J1")>>
    /\ result = Success

\* C15: a failed response, of a status query or of the synchronous build,
\* ends the call with failure carrying the response's errorCode and the
\* message getErrorMessage gives: the npm-registry text for
\* PackageNotFoundError, the lead-in and the versions joined with ", " for
\* PackageVersionMismatchError.
C15_FailedMapping ==
    (lastResp.seen /\ lastResp.data.status = Str("failed")) =>
        /\ cpc = "done"
        /\ result.status = "failure"
        /\ result.errorCode = lastResp.data.errorCode
        /\ lastResp.data.errorCode = Str("PackageNotFoundError") =>
              result.errorMessage = NotFoundText
        /\ (/\ lastResp.data.errorCode = Str("PackageVersionMismatchError")
            /\ lastResp.data.errorMessage.t = "array") =>
              result.errorMessage = VersionLeadIn \o Join(lastResp.data.errorMessage.v, ", ")

\* C16: a status query answered with a status other than success, queued
\* and failed ends pollQueue at once with failure UNEXPECTED_DOCS_POLL_STATUS
\* and a message naming the status; no further query, nothing thrown.
C16_UnknownPollStatus ==
    (/\ entry = "getPackageDocs"
     /\ lastResp.seen
     /\ lastResp.data.status \notin {Str("success"), Str("queued"), Str("failed")}) =>
        /\ cpc = "done"
        /\ result = Failure(Str("UNEXPECTED_DOCS_POLL_STATUS"),
                            UnknownStatusText \o JsString(lastResp.data.status))
        /\ queries = Len(history)
        /\ pendingCalls = {}

C16_Witness ==
    /\ entry = "getPackageDocs"
    /\ lastResp.seen
    /\ lastResp.data.status = Str("active")
    /\ Len(history) >= 2
    /\ result.errorCode = Str("UNEXPECTED_DOCS_POLL_STATUS")
    /\ Contains(result.errorMessage, "active")

TerminatesIfClockAdvances ==
    []<><<cnow' > cnow>>_vars => <>(cpc \in {"done", "rejected"})

\* C11: a status query that fails ends pollQueue at once, without retry, as
\* failure UNEXPECTED_DOCS_POLL_FAILURE; the message is the "removed from
\* queue" text exactly for a 404 response, the status code and serialized
\* body for any other response, and empty exactly when there is no response.
C11_TransportFailure ==
    pollErr.seen =>
        /\ cpc = "done"
        /\ result.status = "failure"
        /\ result.errorCode = Str("UNEXPECTED_DOCS_POLL_FAILURE")
        /\ queries = Len(history) + 1
        /\ pendingCalls = {}
        /\ (result.errorMessage = RemovedText)
              <=> (pollErr.data.response /\ pollErr.data.status = 404)
        /\ (pollErr.data.response /\ pollErr.data.status # 404) =>
              /\ Len(result.errorMessage) >= 2
              /\ result.errorMessage[1] = ToString(pollErr.data.status)
              /\ SubSeq(result.errorMessage, 3, Len(result.errorMessage))
                    = (IF pollErr.data.hasData THEN JsonStringify(pollErr.data.data) ELSE <<>>)
        /\ (result.errorMessage = <<>>) <=> ~pollErr.data.response

C11_Witness ==
    /\ pollErr.seen
    /\ pollErr.data.response
    /\ pollErr.data.status = 404
    /\ queries >= 2
    /\ result.errorMessage = RemovedText

(***************************************************************************)
(* Properties of getErrorMessage.                                          *)
(***************************************************************************)
\* C6: getErrorMessage returns a string for every code, extra and stack; it
\* never throws.
C6_Total == errOut.kind # "throw"

\* C12: for TypeDocBuildError with a stack that is absent, null or empty
\* (and a string as extra), the message holds no "undefined" and no "null"
\* fragment.
C12_NoUndefinedStack ==
    (/\ errOut.kind = "return"
     /\ errIn.name = Str("TypeDocBuildError")
     /\ errIn.extra.t = "string"
     /\ ~Truthy(errIn.errorStack)) =>
        (~Contains(errOut.value, "undefined") /\ ~Contains(errOut.value, "null"))

\* the four domain kinds
DomainKinds == {Str("PackageNotFoundError"), Str("PackageVersionMismatchError"),
                Str("TypeDefinitionResolveError"), Str("TypeDocBuildError")}

\* C17: for every code outside the four domain kinds getErrorMessage
\* returns the empty string and does not throw, whatever extra and stack are.
C17_UnknownCodeEmpty ==
    (errOut # NotCalled /\ errIn.name \notin DomainKinds) => errOut = Returned(<<>>)

C17_Witness ==
    /\ errIn.name = Str("SomeOtherError")
    /\ errIn.extra = Null
    /\ errOut = Returned(<<>>)

(***************************************************************************)
(* Properties of the worker.                                               *)
(***************************************************************************)
\* C7: when the queue has marked a job failed after its build threw an error
\* object, the job record holds that error's context.
C7_ContextBeforeFailed ==
    \A j \in Jobs :
        (jobStatus[j] = "failed" /\ buildOut[j].err.t = "error") =>
            jobData[j] = ErrorContext(buildOut[j].err)

\* no job attempt has started for longer than the idle threshold
IdleTooLong == wnow - lastAttemptStart > IdleThreshold

\* C8: a live worker in which no job attempt has started for longer than the
\* idle threshold does not stay that way: the watchdog ends the process
\* (unless a job attempt starts before the tick).
C8_IdleWorkerExits == (alive /\ IdleTooLong) ~> (~alive \/ ~IdleTooLong)

C8_Witness == ~alive /\ IdleTooLong

\* C9: the process exits only when now - (start of the most recent job
\* attempt, or process start) exceeds the idle threshold.
C9_ExitsOnlyWhenIdle == [][(alive /\ ~alive') => IdleTooLong]_vars

C9_Witness == ~alive /\ lastAttemptStart > 0 /\ IdleTooLong

\* C10: once a job is success or failed, its status and its data stay as
\* they are.
C10_TerminalImmutable ==
    [][\A j \in Jobs :
          jobStatus[j] \in {"success", "failed"} =>
              (jobStatus'[j] = jobStatus[j] /\ jobData'[j] = jobData[j])]_vars

\* C18: the watchdog never ends the worker process while a job attempt is
\* in progress, not even during a build that runs longer than the
\* idle threshold.
C18_NoExitDuringJob == ~alive => hpc # "building"

\* the queue never marks success a job whose build failed
NeverSuccessAfterFailure ==
    \A j \in Jobs :
        (jobStatus[j] = "success" /\ buildOut[j].kind # "none") =>
            buildOut[j] = ResultOutcome

\* C20: the handler never changes the build's outcome: it returns the
\* result exactly when the build returned it and fails with the build's own
\* error exactly when the build failed; a failed build is never marked
\* success and its error is never swallowed or replaced.
C20_OutcomePreserved ==
    /\ \A j \in Jobs : handlerOut[j] = buildOut[j]
    /\ NeverSuccessAfterFailure

(***************************************************************************)
(* Properties of the client polling the worker's jobs.                     *)
(***************************************************************************)
\* every request pollQueue has issued is a GET of the poll path
PollOnlyReads ==
    \A i \in 1 .. Len(requests) :
        requests[i].path = "/api/docs/poll/" =>
            (requests[i].method = "GET" /\ requests[i].id = jobId)

\* C13: the poll path never writes job state: pollQueue only issues GET
\* status queries, no step of the client (giving up included) changes a
\* job's status or record, and after the client has given up a build in
\* progress can still resolve or reject.
C13_PollNeverWritesJob ==
    /\ []PollOnlyReads
    /\ [][cvars' # cvars => UNCHANGED <<jobStatus, jobData, pendingUpdate, hpc>>]_vars
    /\ []((result = TimeoutOutcome /\ hpc = "building") =>
            (ENABLED GenerateDocsResolves /\ ENABLED GenerateDocsRejects))

C13_Witness ==
    /\ result = TimeoutOutcome
    /\ queries >= 2
    /\ jobStatus[JobOf(jobId)] \in {"success", "failed"}

====
